---- MODULE Spec2Model ----
(***************************************************************************)
(* Model of the page table simulator of LeePageTable.c: the page table     *)
(* entries, the frames array, the FIFO queue (a circular buffer), the LRU  *)
(* access counters and the fault counter, driven by a reference string as  *)
(* loaded by LeeDataLoader.c.                                              *)
(*                                                                         *)
(* The C code checks no index.  An access outside an allocated array is    *)
(* undefined behaviour.  Where it lands depends on the allocator, on what  *)
(* the process allocated and freed before, and on the build, none of which *)
(* the program controls, so the model gives it every outcome:              *)
(*   - the process is killed (aborted);                                    *)
(*   - a write lands on memory the program does not use: no object of the  *)
(*     program changes (pt.oob: the last call made such a write, pt.stray: *)
(*     some call did; the allocator's bookkeeping may be damaged, which    *)
(*     free() can detect later);                                           *)
(*   - a write lands on an object of the program (the table struct, an     *)
(*     array, the queue), or a value is read outside the arrays: what the  *)
(*     table holds from then on is not determined by the program (wild).   *)
(* An operator returns Wild, a record without the table's fields, for the  *)
(* last outcome; in the state, wild is set, pt keeps what it held before   *)
(* the call, as it does when the process is killed, and the run is not     *)
(* followed further.  Dereferencing the NULL that dequeue returns kills    *)
(* the process.                                                            *)
(***************************************************************************)
EXTENDS Integers, Sequences, FiniteSets

\* ------------------------------------------------------------------ bounds
\* largest page_count, largest frame_count and longest reference string
MaxPages == 4
MaxFrames == 3
MaxRefLen == 6

\* ------------------------------------------------------------ the program
EMPTY == -1
VALID_BIT == 0
\* the NULL pointer dequeue returns, as an index that names no queue slot
NULL == -1

Algorithms == {"FIFO", "LRU", "MFU"}

VARIABLES
    pt,       \* struct page_table (plus oob, stray, wild, segv: see above)
    refs,     \* the part of the reference string already fed to the table
    aborted,  \* the process was killed inside a call
    wild,     \* a call has left the table's contents undetermined
    caller    \* the caller's variable holding the table: what it points to
              \* ("table" or "NULL") and whether that memory has been freed

vars == <<pt, refs, aborted, wild, caller>>

\* struct page_table_entry
page_table_entry(page_number, frame_number, metadata) ==
    [page_number |-> page_number, frame_number |-> frame_number,
     metadata |-> metadata]

\* is_bit_set with the wrong bit tested (a seeded fault)
is_bit_set_next(n, bit) == ((n \div (2 ^ (bit + 1))) % 2) * (2 ^ (bit + 1))

\* n & (1ul << bit), for the 32-bit unsigned n
is_bit_set(n, bit) == ((n \div (2 ^ bit)) % 2) * (2 ^ bit)

\* n & ~(1ul << VALID_BIT): the parameter bit is not used by the code
clear_bit(n, bit) == n - ((n \div (2 ^ VALID_BIT)) % 2) * (2 ^ VALID_BIT)

\* n | (1UL << VALID_BIT)
set_valid_bit(n) ==
    IF (n \div (2 ^ VALID_BIT)) % 2 = 1 THEN n ELSE n + 2 ^ VALID_BIT

\* ------------------------------------------------------------------ queue
\* malloc'ed queue slots are uninitialised; a slot is read only after
\* enqueue has written it, so the placeholder is never observed
UninitEntry == page_table_entry(EMPTY, EMPTY, 0)

\* rear = capacity - 1 is UINT_MAX for capacity 0, stored in the int as -1
create_queue(capacity) ==
    [front |-> 0, size |-> 0, rear |-> capacity - 1, capacity |-> capacity,
     array |-> [i \in 0 .. capacity - 1 |-> UninitEntry]]

\* the fifo_queue pointer of a table that is not FIFO is never set or used
NoQueue == create_queue(0)

\* is_full one record early (a seeded fault)
is_full_early(queue) == queue.size + 1 = queue.capacity

is_full(queue) == queue.size = queue.capacity

is_empty(queue) == queue.size = 0

enqueue(queue, item) ==
    IF is_full(queue)
    THEN queue
    ELSE LET rear == (queue.rear + 1) % queue.capacity
         IN  [queue EXCEPT !.rear = rear, !.array[rear] = item,
                           !.size = queue.size + 1]

\* dequeue taking the newest record instead of the oldest (a seeded fault)
dequeue_lifo(queue) ==
    IF is_empty(queue)
    THEN [item |-> NULL, queue |-> queue]
    ELSE [item |-> queue.rear,
          queue |-> [queue EXCEPT
                        !.rear = (queue.rear + queue.capacity - 1) % queue.capacity,
                        !.size = queue.size - 1]]

\* item: the slot the returned pointer names (NULL when the queue is empty)
dequeue(queue) ==
    IF is_empty(queue)
    THEN [item |-> NULL, queue |-> queue]
    ELSE [item |-> queue.front,
          queue |-> [queue EXCEPT
                        !.front = (queue.front + 1) % queue.capacity,
                        !.size = queue.size - 1]]

\* ------------------------------------------------------------- page table
page_table_create(page_count, frame_count, algorithm) ==
    [page_count |-> page_count,
     algorithm |-> algorithm,
     faults |-> 0,
     entries |-> [i \in 0 .. page_count - 1 |-> page_table_entry(i, EMPTY, 0)],
     frame_count |-> frame_count,
     frames |-> [i \in 0 .. frame_count - 1 |-> EMPTY],
     fifo_queue |-> IF algorithm = "FIFO" THEN create_queue(frame_count)
                    ELSE NoQueue,
     frame_accesses |-> IF algorithm = "LRU"
                        THEN [i \in 0 .. frame_count - 1 |-> 0]
                        ELSE [i \in {} |-> 0],
     oob |-> FALSE,
     stray |-> FALSE,
     wild |-> FALSE,
     segv |-> FALSE]

\* the table after an access outside an array that read a value there or
\* landed on an object of the program: none of its fields is determined
Wild == [wild |-> TRUE]

\* where the writes of a call outside the arrays land: on memory the program
\* does not use, or on an object of the program
Lands == {"unused", "object"}

InPages(t, page) == page \in 0 .. t.page_count - 1
InFrames(t, frame) == frame \in 0 .. t.frame_count - 1

\* the table once the code has written outside an array
stray_write(t, lands) ==
    IF lands = "object" THEN Wild
    ELSE [t EXCEPT !.oob = TRUE, !.stray = TRUE]

\* pt->frames[frame] = page
store_frame(t, frame, page, lands) ==
    IF t.wild THEN t
    ELSE IF InFrames(t, frame) THEN [t EXCEPT !.frames[frame] = page]
    ELSE stray_write(t, lands)

\* the table once the code has read pt->entries[page]: outside entries[] the
\* value read, and all the call does with it, is undetermined
entry_loaded(t, page) == IF t.wild \/ InPages(t, page) THEN t ELSE Wild

\* pt->entries[page], read inside entries[]
load_entry(t, page) == t.entries[page]

\* pt->entries[page] = e
store_entry(t, page, e, lands) ==
    IF t.wild THEN t
    ELSE IF InPages(t, page) THEN [t EXCEPT !.entries[page] = e]
    ELSE stray_write(t, lands)

\* (pt->frame_accesses[frame])++
increment_accesses(t, frame, lands) ==
    IF t.wild THEN t
    ELSE IF InFrames(t, frame)
    THEN [t EXCEPT !.frame_accesses[frame] = t.frame_accesses[frame] + 1]
    ELSE stray_write(t, lands)

\* place_in_memory with the store of the frame number left out (a seeded
\* fault)
place_in_memory_no_frame(t, page, frame, lands) ==
    LET t1 == entry_loaded(store_frame(t, frame, page, lands), page)
    IN  IF t1.wild THEN t1
        ELSE LET e1 == load_entry(t1, page)
                 e2 == [e1 EXCEPT !.metadata = set_valid_bit(e1.metadata)]
                 t2 == store_entry(t1, page, e2, lands)
             IN  IF t1.algorithm = "FIFO"
                 THEN [t2 EXCEPT !.fifo_queue = enqueue(t2.fifo_queue, e2)]
                 ELSE IF t1.algorithm = "LRU"
                 THEN increment_accesses(t2, frame, lands)
                 ELSE t2

\* place_in_memory enqueueing the entry as it was before the frame number is
\* stored (a seeded fault)
place_in_memory_stale_record(t, page, frame, lands) ==
    LET t1 == entry_loaded(store_frame(t, frame, page, lands), page)
    IN  IF t1.wild THEN t1
        ELSE LET e1 == load_entry(t1, page)
                 e2 == [e1 EXCEPT !.frame_number = frame,
                                  !.metadata = set_valid_bit(e1.metadata)]
                 t2 == store_entry(t1, page, e2, lands)
             IN  IF t1.algorithm = "FIFO"
                 THEN [t2 EXCEPT !.fifo_queue = enqueue(t2.fifo_queue, e1)]
                 ELSE IF t1.algorithm = "LRU"
                 THEN increment_accesses(t2, frame, lands)
                 ELSE t2

place_in_memory(t, page, frame, lands) ==
    LET t1 == entry_loaded(store_frame(t, frame, page, lands), page)
    IN  IF t1.wild THEN t1
        ELSE LET e1 == load_entry(t1, page)
                 e2 == [e1 EXCEPT !.frame_number = frame,
                                  !.metadata = set_valid_bit(e1.metadata)]
                 t2 == store_entry(t1, page, e2, lands)
             IN  IF t1.algorithm = "FIFO"
                 THEN [t2 EXCEPT !.fifo_queue = enqueue(t2.fifo_queue, e2)]
                 ELSE IF t1.algorithm = "LRU"
                 THEN increment_accesses(t2, frame, lands)
                 ELSE t2

\* fi_page is a pointer into the queue's array: its fields are read from the
\* slot as it is when the code reads them (before place_in_memory enqueues)
swap_fifo(t, page, lands) ==
    LET d == dequeue(t.fifo_queue)
        fi_page == d.item
        t1 == [t EXCEPT !.fifo_queue = d.queue]
    IN  IF fi_page = NULL
        THEN [t1 EXCEPT !.segv = TRUE]
        ELSE LET victim == t1.fifo_queue.array[fi_page].page_number
                 t2 == entry_loaded(t1, victim)
             IN  IF t2.wild THEN t2
                 ELSE LET dequeued == load_entry(t2, victim)
                          \* dequeued.metadata &= ~(1ul << VALID_BIT)
                          cleared == [dequeued EXCEPT
                                         !.metadata = dequeued.metadata
                                            - ((dequeued.metadata
                                                  \div (2 ^ VALID_BIT)) % 2)
                                              * (2 ^ VALID_BIT)]
                          t3 == store_entry(t2, victim, cleared, lands)
                      IN  place_in_memory(
                              t3, page,
                              t1.fifo_queue.array[fi_page].frame_number, lands)

\* the scan of swap_lru's loop from frame i on, lru_frame the minimum so far
RECURSIVE lru_scan(_, _, _)
lru_scan(t, i, lru_frame) ==
    IF i >= t.frame_count THEN lru_frame
    ELSE lru_scan(t, i + 1,
                  IF t.frame_accesses[i] < t.frame_accesses[lru_frame]
                  THEN i ELSE lru_frame)

\* with frame_count = 0 lru_frame stays 0 and frames[0] is read outside the
\* array
swap_lru(t, page, lands) ==
    LET lru_frame == lru_scan(t, 0, 0)
    IN  IF ~InFrames(t, lru_frame) THEN Wild
        ELSE LET lru_page == t.frames[lru_frame]
                 t1 == entry_loaded(t, lru_page)
             IN  IF t1.wild THEN t1
                 ELSE LET lru_entry == load_entry(t1, lru_page)
                          cleared == [lru_entry EXCEPT
                                         !.metadata =
                                            clear_bit(lru_entry.metadata,
                                                      VALID_BIT)]
                          t2 == store_entry(t1, lru_page, cleared, lands)
                      IN  place_in_memory(t2, page, lru_page, lands)

\* the free-frame loop run from the last frame down (a seeded fault)
first_empty_frame_last(t, i) ==
    LET free == {j \in i .. t.frame_count - 1 : t.frames[j] = EMPTY}
    IN  IF free = {} THEN t.frame_count
        ELSE CHOOSE j \in free : \A k \in free : k <= j

\* the free-frame loop ending on the last frame when none is EMPTY (a seeded
\* fault)
first_empty_frame_or_last(t, i) ==
    LET free == {j \in i .. t.frame_count - 1 : t.frames[j] = EMPTY}
    IN  IF free = {} THEN t.frame_count - 1
        ELSE CHOOSE j \in free : \A k \in free : j <= k

\* the free-frame loop of page_table_access_page from frame i on: the first
\* EMPTY frame, or frame_count when there is none
RECURSIVE first_empty_frame(_, _)
first_empty_frame(t, i) ==
    IF i >= t.frame_count THEN t.frame_count
    ELSE IF t.frames[i] = EMPTY THEN i
    ELSE first_empty_frame(t, i + 1)

page_table_access_page(t, page, lands) ==
    LET t0 == entry_loaded(t, page)
    IN  IF t0.wild THEN t0
        ELSE LET entry == load_entry(t0, page)
             IN  IF entry.frame_number # EMPTY
                    /\ is_bit_set(entry.metadata, VALID_BIT) # 0
                 THEN IF t0.algorithm = "LRU"
                      THEN increment_accesses(t0, entry.frame_number, lands)
                      ELSE t0
                 ELSE LET t1 == [t0 EXCEPT !.faults = t0.faults + 1]
                          i == first_empty_frame(t1, 0)
                      IN  IF i < t1.frame_count
                          THEN place_in_memory(t1, page, i, lands)
                          ELSE IF t1.algorithm = "FIFO"
                          THEN swap_fifo(t1, page, lands)
                          ELSE IF t1.algorithm = "LRU"
                          THEN swap_lru(t1, page, lands)
                          ELSE t1

\* page_table_destroy(&pt), on the caller's variable c: the table's memory is
\* freed; no statement assigns *pt.  damaged: free() meets bookkeeping that a
\* write outside an array has damaged, detects it and kills the process.
page_table_destroy(c, damaged) ==
    IF damaged
    THEN [caller |-> c, aborted |-> TRUE]
    ELSE [caller |-> [c EXCEPT !.freed = TRUE], aborted |-> FALSE]

\* the shape of the state
TypeOK ==
    /\ aborted \in BOOLEAN
    /\ wild \in BOOLEAN
    /\ caller \in [pt : {"table", "NULL"}, freed : BOOLEAN]
    /\ refs \in Seq(-1 .. pt.page_count)
    /\ pt.algorithm \in Algorithms
    /\ pt.page_count \in Nat /\ pt.frame_count \in Nat /\ pt.faults \in Nat
    /\ DOMAIN pt.entries = 0 .. pt.page_count - 1
    /\ \A p \in DOMAIN pt.entries :
          /\ pt.entries[p].page_number = p
          /\ pt.entries[p].frame_number \in -1 .. pt.page_count
          /\ pt.entries[p].metadata \in {0, 1}
    /\ DOMAIN pt.frames = 0 .. pt.frame_count - 1
    /\ \A f \in DOMAIN pt.frames : pt.frames[f] \in -1 .. pt.page_count
    /\ pt.fifo_queue.capacity = (IF pt.algorithm = "FIFO" THEN pt.frame_count ELSE 0)
    /\ pt.fifo_queue.size \in 0 .. pt.fifo_queue.capacity
    /\ DOMAIN pt.frame_accesses =
          (IF pt.algorithm = "LRU" THEN 0 .. pt.frame_count - 1 ELSE {})
    /\ \A f \in DOMAIN pt.frame_accesses : pt.frame_accesses[f] \in Nat
    /\ pt.oob \in BOOLEAN /\ pt.stray \in BOOLEAN
    /\ pt.wild = FALSE /\ pt.segv = FALSE

\* ----------------------------------------------------------------- driver
\* the scenario of the FIFO test: 3 frames, pages 1..5 of 6
BeladyScenario ==
    [page_count |-> 6, frame_count |-> 3,
     refstr |-> <<1, 2, 3, 4, 1, 2, 5, 1, 2, 3, 4, 5>>]

IsBelady(t) ==
    /\ t.algorithm = "FIFO"
    /\ t.page_count = BeladyScenario.page_count
    /\ t.frame_count = BeladyScenario.frame_count

\* the reference string has another element, and it is page
HasNext(page) ==
    IF IsBelady(pt)
    THEN /\ Len(refs) < Len(BeladyScenario.refstr)
         /\ page = BeladyScenario.refstr[Len(refs) + 1]
    ELSE Len(refs) < MaxRefLen

\* one call page_table_access_page(pt, page) of the driver's loop: it kills
\* the process, or leaves the table undetermined, or returns
AccessPage(page) ==
    /\ ~aborted
    /\ ~wild
    /\ caller.pt = "table" /\ ~caller.freed
    /\ UNCHANGED caller
    /\ HasNext(page)
    /\ refs' = Append(refs, page)
    /\ \E lands \in Lands :
         LET r == page_table_access_page([pt EXCEPT !.oob = FALSE], page, lands)
         IN  \/ /\ IF r.wild THEN TRUE ELSE r.segv \/ r.oob
                /\ aborted' = TRUE
                /\ wild' = FALSE
                /\ pt' = pt
             \/ /\ r.wild
                /\ aborted' = FALSE
                /\ wild' = TRUE
                /\ pt' = pt
             \/ /\ IF r.wild THEN FALSE ELSE ~r.segv
                /\ aborted' = FALSE
                /\ wild' = FALSE
                /\ pt' = r

Configs(frame_counts) ==
    {page_table_create(pc, fc, a) :
        pc \in 1 .. MaxPages, fc \in frame_counts, a \in Algorithms}
    \cup {page_table_create(BeladyScenario.page_count,
                            BeladyScenario.frame_count, "FIFO")}

\* tables with at least one frame, fed pages in [0, page_count)
Init ==
    /\ pt \in Configs(1 .. MaxFrames)
    /\ refs = <<>>
    /\ aborted = FALSE
    /\ wild = FALSE
    /\ caller = [pt |-> "table", freed |-> FALSE]

Next == \E page \in 0 .. pt.page_count - 1 : AccessPage(page)

Spec == Init /\ [][Next]_vars

\* the driver's call page_table_destroy(&pt) once it is done with the table
Destroy ==
    /\ ~aborted
    /\ caller.pt = "table" /\ ~caller.freed
    /\ UNCHANGED <<pt, refs, wild>>
    /\ \E damaged \in {FALSE, pt.stray \/ wild} :
          LET r == page_table_destroy(caller, damaged)
          IN  /\ caller' = r.caller
              /\ aborted' = r.aborted

\* the runs of Spec, each ended at any point by destroying the table
NextLife == Next \/ Destroy

SpecLife == Init /\ [][NextLife]_vars

\* the runs of Spec in which every call stays inside the arrays
NextInBounds ==
    \E page \in 0 .. pt.page_count - 1 :
        AccessPage(page) /\ ~aborted' /\ ~wild' /\ ~pt'.oob

SpecInBounds == Init /\ [][NextInBounds]_vars

\* any frame_count >= 0, and pages one below and one above the range too
InitAny ==
    /\ pt \in Configs(0 .. MaxFrames)
    /\ refs = <<>>
    /\ aborted = FALSE
    /\ wild = FALSE
    /\ caller = [pt |-> "table", freed |-> FALSE]

NextAny == \E page \in -1 .. pt.page_count : AccessPage(page)

SpecAny == InitAny /\ [][NextAny]_vars

\* ----------------------------------------------------------------- claims
Pages(t) == 0 .. t.page_count - 1
Frames(t) == 0 .. t.frame_count - 1

\* the valid bit of page p is set
Valid(t, p) == t.entries[p].metadata % 2 = 1

Resident(t) == {p \in Pages(t) : Valid(t, p)}

NoEmptyFrame(t) == \A f \in Frames(t) : t.frames[f] # EMPTY

\* this step is a call of page_table_access_page; Returned: and it returned
\* with the table determined
Called == refs' # refs
Returned == Called /\ ~aborted' /\ ~wild'
Arg == refs'[Len(refs')]

\* C1: the pages whose valid bit is set and the non-EMPTY frames correspond
\* one to one: a valid page p is the occupant of frame entries[p].frame_number,
\* and the occupant of a non-EMPTY frame f is valid and has frame_number f.
C1_Bijection ==
    /\ \A p \in Pages(pt) :
          Valid(pt, p) =>
             /\ pt.entries[p].frame_number \in Frames(pt)
             /\ pt.frames[pt.entries[p].frame_number] = p
    /\ \A f \in Frames(pt) :
          pt.frames[f] # EMPTY =>
             /\ pt.frames[f] \in Pages(pt)
             /\ Valid(pt, pt.frames[f])
             /\ pt.entries[pt.frames[f]].frame_number = f

\* C2: the number of pages whose valid bit is set never exceeds frame_count.
C2_Capacity == Cardinality(Resident(pt)) <= pt.frame_count

\* C3: a miss with no EMPTY frame (FIFO or LRU) places the page into the frame
\* that held the victim: for some frame v, afterwards frames[v] is the page,
\* the page's frame_number is v and its valid bit is set, the page that was
\* in v has its valid bit clear, and no other frame has changed.
C3_PlacedInVictimFrame ==
    [][(/\ Returned
        /\ pt.algorithm \in {"FIFO", "LRU"}
        /\ ~Valid(pt, Arg)
        /\ NoEmptyFrame(pt))
       => \E v \in Frames(pt) :
             /\ pt'.frames[v] = Arg
             /\ pt'.entries[Arg].frame_number = v
             /\ Valid(pt', Arg)
             /\ ~Valid(pt', pt.frames[v])
             /\ \A f \in Frames(pt) \ {v} : pt'.frames[f] = pt.frames[f]]_vars

\* C4: the fault counter starts at 0, and a call that returns adds 1 to it when
\* the page's valid bit was clear before the call and 0 when it was set; no
\* step decreases it.
C4_FaultCounting ==
    /\ pt.faults = 0
    /\ [][/\ pt'.faults >= pt.faults
          /\ Returned =>
                pt'.faults = pt.faults + (IF Valid(pt, Arg) THEN 0 ELSE 1)]_vars

\* a run with hits and misses, some of the misses evictions
C4_Witness ==
    /\ ~aborted /\ ~wild
    /\ pt.faults > pt.frame_count
    /\ pt.faults < Len(refs)

\* the elements of a sequence
Range(s) == {s[i] : i \in 1 .. Len(s)}

\* FIFO replacement as the textbooks give it, on the first n references of
\* refstr with frame_count frames: the resident pages in load order (oldest
\* first) and the number of faults
RECURSIVE ReferenceFifo(_, _, _)
ReferenceFifo(refstr, n, frame_count) ==
    IF n = 0 THEN [order |-> <<>>, faults |-> 0]
    ELSE LET before == ReferenceFifo(refstr, n - 1, frame_count)
             page == refstr[n]
         IN  IF page \in Range(before.order) THEN before
             ELSE [order |-> Append(IF Len(before.order) < frame_count
                                    THEN before.order
                                    ELSE Tail(before.order), page),
                   faults |-> before.faults + 1]

\* C5: under FIFO a miss with no EMPTY frame evicts the resident page loaded
\* earliest (a hit is no load), and after every call the fault count and the
\* set of resident pages are those of the reference FIFO run on the same
\* references.
C5_FifoOrder ==
    [][(Returned /\ pt.algorithm = "FIFO")
       => LET before == ReferenceFifo(refs, Len(refs), pt.frame_count)
              after == ReferenceFifo(refs', Len(refs'), pt.frame_count)
          IN  /\ pt'.faults = after.faults
              /\ Resident(pt') = Range(after.order)
              /\ (~Valid(pt, Arg) /\ NoEmptyFrame(pt))
                 => Resident(pt) \ Resident(pt') = {Head(before.order)}]_vars

\* the 3-frame scenario [1,2,3,4,1,2,5,1,2,3,4,5] has run: 9 faults, and
\* pages 5, 3 and 4 are left
C5_Witness ==
    /\ pt.algorithm = "FIFO"
    /\ pt.frame_count = 3
    /\ refs = BeladyScenario.refstr
    /\ pt.faults = 9
    /\ Resident(pt) = {3, 4, 5}

\* the lowest-indexed frame whose access counter is minimal
MinCounterFrame(t) ==
    CHOOSE f \in Frames(t) :
        /\ \A h \in Frames(t) : t.frame_accesses[f] <= t.frame_accesses[h]
        /\ \A h \in Frames(t) : h < f => t.frame_accesses[h] > t.frame_accesses[f]

\* C6: under LRU a miss with no EMPTY frame takes as victim the lowest-indexed
\* frame with the minimal access counter, and the page occupying that frame is
\* not resident after the call.
C6_LruVictim ==
    [][(/\ Returned
        /\ pt.algorithm = "LRU"
        /\ ~Valid(pt, Arg)
        /\ NoEmptyFrame(pt))
       => ~Valid(pt', pt.frames[MinCounterFrame(pt)])]_vars

\* C7 as claimed: the valid bit of a page is set if and only if its
\* frame_number is not EMPTY.
C7_ValidIffFrame ==
    \A p \in Pages(pt) : Valid(pt, p) <=> pt.entries[p].frame_number # EMPTY

\* C7 as amended: a page whose valid bit is set has a frame_number other than
\* EMPTY, and a page whose valid bit a call clears (an eviction) keeps its
\* frame_number.
C7_ValidImpliesFrame ==
    [][/\ \A p \in Pages(pt) :
             Valid(pt', p) => pt'.entries[p].frame_number # EMPTY
       /\ \A p \in Pages(pt) :
             (Valid(pt, p) /\ ~Valid(pt', p))
                => /\ pt'.entries[p].frame_number = pt.entries[p].frame_number
                   /\ pt'.entries[p].frame_number # EMPTY]_vars

\* a page has been evicted: its valid bit is clear, its frame_number is kept
C7_Witness ==
    /\ ~aborted /\ ~wild
    /\ \E p \in Pages(pt) :
          ~Valid(pt, p) /\ pt.entries[p].frame_number # EMPTY

\* C8: a call on a resident page changes neither the frames, nor any page's
\* frame_number or valid bit, nor the fault counter; under LRU it adds 1 to
\* the counter of the frame the page occupies and changes no other counter;
\* under FIFO and MFU it changes nothing.
C8_HitNoOp ==
    [][(Returned /\ Valid(pt, Arg))
       => /\ pt'.frames = pt.frames
          /\ pt'.entries = pt.entries
          /\ pt'.faults = pt.faults
          /\ pt'.fifo_queue = pt.fifo_queue
          /\ IF pt.algorithm = "LRU"
             THEN \E f \in Frames(pt) :
                     /\ pt.frames[f] = Arg
                     /\ pt'.frame_accesses =
                           [pt.frame_accesses EXCEPT ![f] = pt.frame_accesses[f] + 1]
             ELSE pt'.frame_accesses = pt.frame_accesses]_vars

\* C9: a call with a page outside [0, page_count) leaves the entries, the
\* frames, the fault counter, the FIFO queue and the access counters as they
\* were, whatever memory the process has used before (a call that kills the
\* process counts as rejected).
C9_OutOfRangeRejected ==
    [][(Called /\ ~InPages(pt, Arg))
       => /\ ~wild'
          /\ pt'.entries = pt.entries
          /\ pt'.frames = pt.frames
          /\ pt'.faults = pt.faults
          /\ pt'.fifo_queue = pt.fifo_queue
          /\ pt'.frame_accesses = pt.frame_accesses]_vars

\* C10: with frame_count = 0 every call with a page in [0, page_count) returns,
\* adds 1 to the fault counter, leaves every page non-resident and makes up no
\* victim (no access outside the arrays).
C10_NoFrames ==
    [][(Called /\ pt.frame_count = 0 /\ InPages(pt, Arg))
       => /\ ~aborted'
          /\ ~wild'
          /\ pt'.faults = pt.faults + 1
          /\ Resident(pt') = {}
          /\ ~pt'.oob]_vars

\* C11: once page_table_destroy(&pt) has returned, the caller's variable is
\* NULL.
C11_DestroyNulls == caller.freed => caller.pt = "NULL"

\* the records of the queue from front to rear
QueueRecords(q) ==
    [k \in 1 .. q.size |-> q.array[(q.front + k - 1) % q.capacity]]

QueuePages(q) == [k \in 1 .. q.size |-> QueueRecords(q)[k].page_number]

\* C13: under FIFO the queue, read from front to rear, holds one record per
\* resident page and none of another page, oldest load first; its size is the
\* number of resident pages and at most frame_count (so no enqueue meets a
\* full queue and is dropped: the page just placed has its record).
C13_QueueInvariant ==
    (pt.algorithm = "FIFO" /\ ~aborted)
    => LET q == pt.fifo_queue
       IN  /\ q.size = Cardinality(Resident(pt))
           /\ q.size <= pt.frame_count
           /\ Range(QueuePages(q)) = Resident(pt)
           /\ QueuePages(q) = ReferenceFifo(refs, Len(refs), pt.frame_count).order
           /\ q.size > 0 => q.rear = (q.front + q.size - 1) % q.capacity

\* the queue is full and has wrapped around
C13_Witness ==
    /\ pt.algorithm = "FIFO"
    /\ pt.frame_count >= 2
    /\ pt.fifo_queue.size = pt.frame_count
    /\ pt.fifo_queue.front # 0
    /\ pt.faults > pt.frame_count + 1

\* C14: under LRU the counter of a frame a new page is placed into (a load
\* into an EMPTY frame or an eviction) starts again at this load: right after
\* the call it is 1, the load itself.
C14_CounterResetAtLoad ==
    [][(Returned /\ pt.algorithm = "LRU" /\ ~Valid(pt, Arg))
       => \A f \in Frames(pt) :
             (pt'.frames[f] = Arg /\ pt.frames[f] # Arg)
                => pt'.frame_accesses[f] = 1]_vars

\* the frames that hold a page
Occupied(t) == {f \in Frames(t) : t.frames[f] # EMPTY}

\* C15: on a miss while some frame is EMPTY, under any policy, the page goes
\* into the lowest-indexed EMPTY frame, no other page's entry and no other
\* frame's occupant changes, and one more frame is non-EMPTY.
C15_FreeFrameLoad ==
    [][(Returned /\ ~Valid(pt, Arg) /\ ~NoEmptyFrame(pt))
       => LET free == Frames(pt) \ Occupied(pt)
              f == CHOOSE j \in free : \A k \in free : j <= k
          IN  /\ pt'.frames = [pt.frames EXCEPT ![f] = Arg]
              /\ pt'.entries[Arg].frame_number = f
              /\ Valid(pt', Arg)
              /\ \A p \in Pages(pt) \ {Arg} : pt'.entries[p] = pt.entries[p]
              /\ Cardinality(Occupied(pt')) = Cardinality(Occupied(pt)) + 1]_vars

\* three frames, the first two loaded one after the other, the last still EMPTY
C15_Witness ==
    /\ pt.frame_count = 3
    /\ ~aborted /\ ~wild
    /\ pt.faults = 2
    /\ pt.frames[0] # EMPTY /\ pt.frames[1] # EMPTY /\ pt.frames[2] = EMPTY
    /\ pt.entries[pt.frames[1]].frame_number = 1

\* C16: under MFU, once every frame is non-EMPTY, an access to a non-resident
\* page adds 1 to faults and changes nothing else, and no access changes the
\* frames array or the resident set again.
C16_MfuNeverEvicts ==
    [][(Returned /\ pt.algorithm = "MFU" /\ NoEmptyFrame(pt))
       => /\ pt'.frames = pt.frames
          /\ Resident(pt') = Resident(pt)
          /\ IF Valid(pt, Arg)
             THEN pt' = pt
             ELSE pt' = [pt EXCEPT !.faults = pt.faults + 1]]_vars

\* MFU, every frame taken, and faults taken after that on pages left outside
C16_Witness ==
    /\ pt.algorithm = "MFU"
    /\ ~aborted /\ ~wild
    /\ NoEmptyFrame(pt)
    /\ pt.faults >= pt.frame_count + 2
    /\ Cardinality(Resident(pt)) = pt.frame_count

\* C17: under FIFO and LRU no call reads or writes frames[] or
\* frame_accesses[] outside [0, frame_count) (no call is killed for it, none
\* lands outside the arrays), and every resident page's frame_number is in
\* [0, frame_count).
C17_FrameIndicesInRange ==
    (pt.algorithm \in {"FIFO", "LRU"})
    => /\ ~aborted
       /\ ~wild
       /\ ~pt.oob
       /\ \A p \in Resident(pt) : pt.entries[p].frame_number \in Frames(pt)

\* the record at the front of the queue, the one the next dequeue returns
FrontRecord(q) == q.array[q.front]

\* C18: under FIFO every record of the queue names the frame its page is in
\* now: its frame_number is that of the page's entry and that frame holds the
\* page.
C18_RecordsFresh ==
    (pt.algorithm = "FIFO" /\ ~aborted)
    => \A k \in 1 .. pt.fifo_queue.size :
          LET record == QueueRecords(pt.fifo_queue)[k]
          IN  /\ record.page_number \in Pages(pt)
              /\ record.frame_number = pt.entries[record.page_number].frame_number
              /\ record.frame_number \in Frames(pt)
              /\ pt.frames[record.frame_number] = record.page_number

\* C18, the eviction: the record swap_fifo dequeues is read as it was before
\* the call, although the enqueue of the same call writes its slot: its page
\* loses the valid bit and its frame receives the new page.
C18_DequeuedRecordRead ==
    [][(Returned /\ pt.algorithm = "FIFO" /\ ~Valid(pt, Arg) /\ NoEmptyFrame(pt))
       => LET record == FrontRecord(pt.fifo_queue)
          IN  /\ ~Valid(pt', record.page_number)
              /\ pt'.frames = [pt.frames EXCEPT ![record.frame_number] = Arg]
              /\ pt'.entries[Arg].frame_number = record.frame_number
              /\ pt'.fifo_queue.array[pt.fifo_queue.front].page_number = Arg]_vars

\* C18: the records are fresh in every state and the dequeued one is read
\* before it is overwritten.
C18_QueueRecordsNeverStale == [](C18_RecordsFresh) /\ C18_DequeuedRecordRead

\* a full queue of two or more records whose newest record took the slot of
\* the record the last call dequeued
C18_Witness ==
    /\ pt.algorithm = "FIFO"
    /\ ~aborted /\ ~wild
    /\ pt.frame_count >= 2
    /\ pt.faults >= pt.frame_count + 2
    /\ Len(refs) > 0
    /\ pt.fifo_queue.array[pt.fifo_queue.rear].page_number = refs[Len(refs)]
    /\ pt.fifo_queue.front = (pt.fifo_queue.rear + 1) % pt.fifo_queue.capacity

\* C19: under FIFO an access to a resident page leaves the queue (contents,
\* front, rear, size) as it was.
C19_FifoHitKeepsQueue ==
    [][(Returned /\ pt.algorithm = "FIFO" /\ Valid(pt, Arg))
       => pt'.fifo_queue = pt.fifo_queue]_vars

\* a FIFO run with a hit on the page at the front of a queue of two or more:
\* the next eviction still takes that page
C19_Witness ==
    /\ pt.algorithm = "FIFO"
    /\ ~aborted /\ ~wild
    /\ pt.fifo_queue.size >= 2
    /\ Len(refs) > 0
    /\ pt.faults < Len(refs)
    /\ FrontRecord(pt.fifo_queue).page_number = refs[Len(refs)]
    /\ ReferenceFifo(refs, Len(refs) - 1, pt.frame_count).faults = pt.faults

====
